---- MODULE Spec2Model ----
(***************************************************************************)
(* OptaButton: a polled, debounced push-button event generator.            *)
(* The model follows src/src/OptaButton.cpp and src/src/OptaButton.h:      *)
(* one button object (btn) with its immutable configuration (cfg), the     *)
(* file-level refresh token, the millisecond clock and the input level.    *)
(***************************************************************************)
EXTENDS Integers, Sequences, FiniteSets, TLC

VARIABLES
  millis,                 \* value returned by millis()
  level,                  \* electrical level seen by digitalRead: "LOW" / "HIGH"
  cfg,                    \* the constructor's arguments (const members)
  btn,                    \* the runtime members of the OptaButton object
  g_optaExpRefreshToken,  \* file-static refresh token
  lastTokenMs,            \* function-static of update()
  lastExpRefreshToken,    \* function-static of readInput()
  lastRefreshToken,       \* the name readInput() compares the token with (never assigned)
  refresh,                \* history: updateDigitalInputs() calls at the latest clock value
  pre,                    \* history: btn as it was when update() was last called
  hist,                   \* history: facts about the last update() call
  env                     \* scenario bookkeeping of the polling environments

vars == <<millis, level, cfg, btn, g_optaExpRefreshToken, lastTokenMs,
          lastExpRefreshToken, lastRefreshToken, refresh, pre, hist, env>>

----------------------------------------------------------------------------
(* Bounds of the model *)

\* The clock and the timestamps are uint32_t in the code.  TLC's integers do
\* not reach 2^32, so unsigned arithmetic is modelled modulo ClockModulus.
ClockModulus == 65536
\* The general environment: the clock makes short steps up to MaxTime ms in
\* total and at most MaxPauses pauses of ACCEL_PERIOD_MS.
MaxTime == 7
MaxPauses == 1
\* The tick-by-tick hold environment stops the clock here.
HoldMaxTime == 14
\* The worked example: the button is held this many ms, and the clock runs
\* ExampleTail ms past the release.
ExampleHold == 2000
ExampleTail == 30

(* Program constants *)
LOOP_INTERVAL_MS == 1
ACCEL_PERIOD_MS == 1000
DefaultDebounceMs == 20
DefaultLongPressMs == 800
DefaultRepeatStartMs == 100
DefaultRepeatMinMs == 8
DefaultAccelRate == 100

----------------------------------------------------------------------------
(* Unsigned arithmetic *)

\* Mutant of Sub32: a difference that does not wrap.
SignedDifference(a, b) == a - b

Sub32(a, b) == (a - b + ClockModulus) % ClockModulus
Add32(a, b) == (a + b) % ClockModulus
Max(a, b) == IF a > b THEN a ELSE b

----------------------------------------------------------------------------
(* Construction *)

Config(mode, inverted, debounceMs, longPressMs, repeatStartMs, repeatMinMs, accelRate, expansion) ==
  [ inputMode |-> mode,
    invertedLogic |-> inverted,
    debounceTime |-> debounceMs,
    longPressThreshold |-> longPressMs,
    repeatIntervalStart |-> repeatStartMs,
    repeatIntervalMin |-> repeatMinMs,
    acceleration |-> accelRate,
    \* environment: TRUE when the build is an Opta build and an expansion
    \* module is found by the enumeration in readInput()
    expansion |-> expansion,
    \* build: the width of int, 32 on the Opta (mbed), 16 on the AVR boards
    intBits |-> 32 ]

\* The same configuration on a board whose int has 16 bits (Uno, Mega).
AvrBuild(c) == [c EXCEPT !.intBits = 16]

DefaultConfig ==
  Config("GPIO", FALSE, DefaultDebounceMs, DefaultLongPressMs,
         DefaultRepeatStartMs, DefaultRepeatMinMs, DefaultAccelRate, FALSE)

OptaButton(c) ==
  [ currentRepeatInterval |-> c.repeatIntervalStart,
    lastUpdateTime |-> 0,
    edgeTime |-> 0,
    lastRepeatTime |-> 0,
    lastAccelUpdate |-> 0,
    rawState |-> FALSE,
    debouncing |-> FALSE,
    currentPressed |-> FALSE,
    longPressActive |-> FALSE,
    shortPressDetected |-> FALSE,
    releaseDetected |-> FALSE,
    longPressDetected |-> FALSE,
    longReleaseDetected |-> FALSE,
    repeatTriggered |-> FALSE,
    longPressReported |-> FALSE ]

----------------------------------------------------------------------------
(* readInput() *)

\* The EXP_DIG branch reads the channel of the first expansion module found
\* (c.expansion), and reads not-pressed when there is none or the build is
\* not an Opta build.  The value read; the refresh is RefreshDue below.

readInput(c, lvl) ==
  LET raw == CASE c.inputMode = "GPIO" -> (lvl = "LOW")
               [] c.inputMode = "OPTA_CTL" -> (lvl = "HIGH")
               [] c.inputMode = "EXP_DIG" -> (c.expansion /\ lvl = "HIGH")
  IN IF c.invertedLogic THEN ~raw ELSE raw

\* lines 171-175 and 179-183.  The gate compares the token with
\* lastRefreshToken, a name this file neither declares nor assigns (the
\* static it declares and assigns is lastExpRefreshToken): whatever value a
\* build gives that name, readInput() never changes it.
RefreshDue(c, tok, lastRef) ==
  c.inputMode = "EXP_DIG" /\ c.expansion /\ tok # lastRef

\* lines 174 and 182: lastExpRefreshToken after readInput()
ExpTokenAfter(c, tok, lastExp, lastRef) ==
  IF RefreshDue(c, tok, lastRef) THEN tok ELSE lastExp

\* History: the updateDigitalInputs() calls made at clock value n, up to 2.
RefreshAfter(r, n, due) ==
  IF ~due THEN r
  ELSE IF r.count > 0 /\ r.tick = n
       THEN [r EXCEPT !.count = IF @ < 2 THEN @ + 1 ELSE @]
       ELSE [tick |-> n, count |-> 1]

InitRefresh == [tick |-> 0, count |-> 0]

----------------------------------------------------------------------------
(* update(), statement by statement *)

\* Mutant of ClearFlags: the flags of the previous poll are kept.
KeepFlags(self) == self

\* lines 72-76
ClearFlags(self) ==
  [self EXCEPT !.shortPressDetected = FALSE,
               !.releaseDetected = FALSE,
               !.longPressDetected = FALSE,
               !.longReleaseDetected = FALSE,
               !.repeatTriggered = FALSE]

\* Mutant of RateLimited: no rate limit.
NeverRateLimited(n, last) == FALSE

\* line 80
RateLimited(n, last) == Sub32(n, last) < LOOP_INTERVAL_MS

\* Mutant of PressEdge: the debounced state is not set.
PressEdgeWithoutState(self, c, n) ==
  [self EXCEPT !.shortPressDetected = TRUE,
               !.longPressActive = FALSE,
               !.currentRepeatInterval = c.repeatIntervalStart,
               !.lastRepeatTime = n,
               !.lastAccelUpdate = n]

\* lines 100-105
PressEdge(self, c, n) ==
  [self EXCEPT !.shortPressDetected = TRUE,
               !.currentPressed = TRUE,
               !.longPressActive = FALSE,
               !.currentRepeatInterval = c.repeatIntervalStart,
               !.lastRepeatTime = n,
               !.lastAccelUpdate = n]

\* Mutant of ReleaseEdge: the long-press guard is not cleared.
ReleaseEdgeKeepingGuard(self) ==
  [self EXCEPT !.releaseDetected = TRUE,
               !.longReleaseDetected = self.longPressActive,
               !.currentPressed = FALSE,
               !.longPressActive = FALSE]

\* Mutant of ReleaseEdge: long-release reported on every release.
ReleaseEdgeAlwaysLong(self) ==
  [self EXCEPT !.releaseDetected = TRUE,
               !.longReleaseDetected = self.currentPressed,
               !.currentPressed = FALSE,
               !.longPressActive = FALSE,
               !.longPressReported = FALSE]

\* lines 107-111
ReleaseEdge(self) ==
  [self EXCEPT !.releaseDetected = TRUE,
               !.longReleaseDetected = self.longPressActive,
               !.currentPressed = FALSE,
               !.longPressActive = FALSE,
               !.longPressReported = FALSE]

\* Mutant of EdgeSeen: edges accepted during the debounce window.
EdgeSeenWhileDebouncing(self, pressed) == pressed # self.rawState

\* line 94
EdgeSeen(self, pressed) == pressed # self.rawState /\ ~self.debouncing

\* lines 94-113
DetectEdge(self, c, n, pressed) ==
  IF EdgeSeen(self, pressed)
  THEN LET s == [self EXCEPT !.rawState = pressed,
                             !.debouncing = TRUE,
                             !.edgeTime = n]
       IN IF pressed THEN PressEdge(s, c, n) ELSE ReleaseEdge(s)
  ELSE self

\* Mutant of DebounceOver: the window never ends.
DebounceNeverOver(self, c, n) == FALSE

\* Mutant of DebounceOver: the debounce window ends at once.
DebounceAlwaysOver(self, c, n) == TRUE

\* line 116, the time comparison
DebounceOver(self, c, n) == Sub32(n, self.edgeTime) >= c.debounceTime

\* lines 116-118
EndDebounce(self, c, n) ==
  IF self.debouncing /\ DebounceOver(self, c, n)
  THEN [self EXCEPT !.debouncing = FALSE]
  ELSE self

\* Mutant of LongPressDue: the guard is not consulted.
LongPressDueWithoutGuard(self, c, n) ==
  Sub32(n, self.edgeTime) >= c.longPressThreshold

\* line 123, the condition
LongPressDue(self, c, n) ==
  ~self.longPressReported /\ Sub32(n, self.edgeTime) >= c.longPressThreshold

\* Mutant of LongPress: the repeat and acceleration timers are not reset.
LongPressKeepingTimers(self, c, n) ==
  IF LongPressDue(self, c, n)
  THEN [self EXCEPT !.longPressDetected = TRUE,
                    !.longPressActive = TRUE,
                    !.longPressReported = TRUE]
  ELSE self

\* lines 123-129
LongPress(self, c, n) ==
  IF LongPressDue(self, c, n)
  THEN [self EXCEPT !.longPressDetected = TRUE,
                    !.longPressActive = TRUE,
                    !.longPressReported = TRUE,
                    !.lastRepeatTime = n,
                    !.lastAccelUpdate = n]
  ELSE self

\* Mutant of NextRepeatTime: the repeat timer is reset to now.
RepeatTimeResetToNow(self, n) == n

\* line 134
NextRepeatTime(self, n) == Add32(self.lastRepeatTime, self.currentRepeatInterval)

\* Mutant of Repeat: long-press-active is not consulted.
RepeatWithoutLongPress(self, n) ==
  IF Sub32(n, self.lastRepeatTime) >= self.currentRepeatInterval
  THEN [self EXCEPT !.repeatTriggered = TRUE,
                    !.lastRepeatTime = NextRepeatTime(self, n)]
  ELSE self

\* lines 132-135
Repeat(self, n) ==
  IF self.longPressActive /\ Sub32(n, self.lastRepeatTime) >= self.currentRepeatInterval
  THEN [self EXCEPT !.repeatTriggered = TRUE,
                    !.lastRepeatTime = NextRepeatTime(self, n)]
  ELSE self

\* lines 143-144, int(x): x converted to the build's int
IntOf(c, x) ==
  IF c.intBits = 16
  THEN LET m == x % 65536 IN IF m >= 32768 THEN m - 65536 ELSE m
  ELSE x

\* line 142, the assignment to the uint16_t currentRepeatInterval
U16(x) == x % 65536

\* lines 142-144
AcceleratedInterval(self, c) ==
  U16(Max(IntOf(c, self.currentRepeatInterval - c.acceleration),
          IntOf(c, c.repeatIntervalMin)))

\* Mutant of Accelerate: the interval is not floored at the minimum.
AccelerateWithoutFloor(self, c, n) ==
  IF /\ self.longPressActive
     /\ Sub32(n, self.lastAccelUpdate) >= ACCEL_PERIOD_MS
     /\ self.currentRepeatInterval > c.repeatIntervalMin
  THEN [self EXCEPT !.currentRepeatInterval =
                        Max(self.currentRepeatInterval - c.acceleration, 0),
                    !.lastAccelUpdate = n]
  ELSE self

\* lines 138-146
Accelerate(self, c, n) ==
  IF /\ self.longPressActive
     /\ Sub32(n, self.lastAccelUpdate) >= ACCEL_PERIOD_MS
     /\ self.currentRepeatInterval > c.repeatIntervalMin
  THEN [self EXCEPT !.currentRepeatInterval = AcceleratedInterval(self, c),
                    !.lastAccelUpdate = n]
  ELSE self

\* lines 121-147
HoldTimers(self, c, n) ==
  IF ~self.debouncing /\ self.currentPressed
  THEN Accelerate(Repeat(LongPress(self, c, n), n), c, n)
  ELSE self

\* lines 70-148: the object after update() called at clock value n, where
\* pressed is what readInput() returns if it is called
update(self, c, n, pressed) ==
  LET cleared == ClearFlags(self)
  IN IF RateLimited(n, self.lastUpdateTime)
     THEN cleared
     ELSE HoldTimers(
            EndDebounce(
              DetectEdge([cleared EXCEPT !.lastUpdateTime = n], c, n, pressed),
              c, n),
            c, n)

\* lines 84-88: the token and the static lastTokenMs after update() at n
TokenAfter(self, n, tok, lastMs) ==
  IF ~RateLimited(n, self.lastUpdateTime) /\ n # lastMs
  THEN <<Add32(tok, 1), n>>
  ELSE <<tok, lastMs>>

----------------------------------------------------------------------------
(* History of the last update() call (not program state) *)

NoEvent(self) ==
  /\ ~self.shortPressDetected /\ ~self.releaseDetected /\ ~self.longPressDetected
  /\ ~self.longReleaseDetected /\ ~self.repeatTriggered

InitHist ==
  [ calls |-> 0,          \* update() calls so far, counted up to 2
    at |-> 0,             \* clock value of the last call
    effective |-> FALSE,  \* the last call got past the rate limit and read the input
    pressed |-> FALSE,    \* what readInput() returns at the last call
    read |-> "none",      \* reading of the last effective poll: "pressed" / "released"
    oppAt |-> -1,         \* time of the latest effective poll that read the opposite of read
    edges |-> FALSE,      \* an edge has been recorded
    edgesBefore |-> FALSE,\* an edge had been recorded before the last call
    nLong |-> 0,          \* long-press-enter events since the last short-press, up to 2
    owed |-> FALSE,       \* the last effective poll found the repeat two intervals late
    owedBefore |-> FALSE, \* ... and so did the effective poll before it
    tokenBefore |-> 0,    \* g_optaExpRefreshToken when update() was last called
    lastEdge |-> "none",  \* the latest edge event emitted: "press" / "release"
    lastEdgeBefore |-> "none" ]  \* ... and the one before the last call

HistAfter(h, old, new, n, p, eff, tok) ==
  LET r == IF p THEN "pressed" ELSE "released"
  IN [ calls |-> IF h.calls < 2 THEN h.calls + 1 ELSE 2,
       at |-> n,
       effective |-> eff,
       pressed |-> p,
       read |-> IF eff THEN r ELSE h.read,
       oppAt |-> IF eff /\ h.read # "none" /\ h.read # r THEN old.lastUpdateTime ELSE h.oppAt,
       edges |-> h.edges \/ new.shortPressDetected \/ new.releaseDetected,
       edgesBefore |-> h.edges,
       nLong |-> LET k == IF new.longPressDetected THEN 1 ELSE 0
                 IN IF new.shortPressDetected THEN k
                    ELSE IF h.nLong + k > 2 THEN 2 ELSE h.nLong + k,
       owed |-> IF eff
                THEN /\ old.longPressActive
                     /\ p
                     /\ Sub32(n, old.lastRepeatTime) >= 2 * old.currentRepeatInterval
                ELSE h.owed,
       owedBefore |-> IF eff THEN h.owed ELSE h.owedBefore,
       tokenBefore |-> tok,
       lastEdge |-> IF new.shortPressDetected THEN "press"
                    ELSE IF new.releaseDetected THEN "release" ELSE h.lastEdge,
       lastEdgeBefore |-> h.lastEdge ]

InitEnv ==
  [ polled |-> FALSE,  \* the current tick has been polled
    stable |-> 0,      \* ticks the level has kept its value, capped
    cycle |-> FALSE,   \* a physical press has begun
    pressAt |-> 0,     \* clock value of the physical press
    nShort |-> 0, nLong |-> 0, nRel |-> 0, nLongRel |-> 0,  \* events of the cycle, up to 2
    together |-> FALSE ]  \* release and long-release came in one poll

----------------------------------------------------------------------------
(* Operations *)

\* One call of update() at the current clock value.
Update ==
  LET p == readInput(cfg, level)
      eff == ~RateLimited(millis, btn.lastUpdateTime)
      nb == update(btn, cfg, millis, p)
      tk == TokenAfter(btn, millis, g_optaExpRefreshToken, lastTokenMs)
  IN /\ btn' = nb
     /\ g_optaExpRefreshToken' = tk[1]
     /\ lastTokenMs' = tk[2]
     /\ lastExpRefreshToken' =
          IF eff THEN ExpTokenAfter(cfg, tk[1], lastExpRefreshToken, lastRefreshToken)
          ELSE lastExpRefreshToken
     /\ refresh' = RefreshAfter(refresh, millis, eff /\ RefreshDue(cfg, tk[1], lastRefreshToken))
     /\ pre' = btn
     /\ hist' = HistAfter(hist, btn, nb, millis, p, eff, g_optaExpRefreshToken)
     /\ UNCHANGED <<millis, level, cfg, lastRefreshToken>>

\* millis() advances by d.
Tick(d) ==
  /\ millis' = Add32(millis, d)
  /\ UNCHANGED <<cfg, btn, g_optaExpRefreshToken, lastTokenMs,
                 lastExpRefreshToken, lastRefreshToken, refresh, pre, hist>>

Toggled(lvl) == IF lvl = "LOW" THEN "HIGH" ELSE "LOW"

\* The input changes level (a press, a release or a bounce).
SetLevel ==
  /\ level' = Toggled(level)
  /\ UNCHANGED <<millis, cfg, btn, g_optaExpRefreshToken, lastTokenMs,
                 lastExpRefreshToken, lastRefreshToken, refresh, pre, hist>>

----------------------------------------------------------------------------
(* The general environment: any polling schedule, any input *)

Steps == {1, 2}
ShortTime == millis % ACCEL_PERIOD_MS
Pauses == millis \div ACCEL_PERIOD_MS

Configs ==
  { Config("GPIO", FALSE, 2, 3, 2, 1, 1, FALSE),
    Config("OPTA_CTL", TRUE, 3, 1, 1, 1, 0, FALSE),
    Config("GPIO", TRUE, 0, 2, 3, 1, 2, FALSE),
    Config("EXP_DIG", FALSE, 0, 0, 0, 0, 0, TRUE) }

Init ==
  /\ millis = 0
  /\ level \in {"LOW", "HIGH"}
  /\ cfg \in Configs
  /\ btn = OptaButton(cfg)
  /\ g_optaExpRefreshToken = 0
  /\ lastTokenMs = 0
  /\ lastExpRefreshToken = 0
  /\ lastRefreshToken = 0
  /\ refresh = InitRefresh
  /\ pre = btn
  /\ hist = InitHist
  /\ env = InitEnv

Poll == Update /\ UNCHANGED env
Advance == \E d \in Steps : ShortTime + d <= MaxTime /\ Tick(d) /\ UNCHANGED <<level, env>>
Pause == Pauses < MaxPauses /\ Tick(ACCEL_PERIOD_MS) /\ UNCHANGED <<level, env>>
Bounce == SetLevel /\ UNCHANGED env

Next == Poll \/ Advance \/ Pause \/ Bounce

Spec == Init /\ [][Next]_vars

\* The same environment on a target whose int has 16 bits (Arduino Uno/Mega,
\* OptaButton.h line 23), with repeat intervals above 32767 ms.
AvrConfigs ==
  { AvrBuild(Config("GPIO", FALSE, 0, 1, 32800, 32768, 100, FALSE)),
    AvrBuild(Config("GPIO", TRUE, 1, 2, 3, 1, 2, FALSE)) }

InitAvr ==
  /\ millis = 0
  /\ level \in {"LOW", "HIGH"}
  /\ cfg \in AvrConfigs
  /\ btn = OptaButton(cfg)
  /\ g_optaExpRefreshToken = 0
  /\ lastTokenMs = 0
  /\ lastExpRefreshToken = 0
  /\ lastRefreshToken = 0
  /\ refresh = InitRefresh
  /\ pre = btn
  /\ hist = InitHist
  /\ env = InitEnv

SpecAvr == InitAvr /\ [][Next]_vars

----------------------------------------------------------------------------
(* Clock wraparound.  The clock starts a few ms before its maximum and     *)
(* wraps to 0 during the run.  env holds a second object of the same       *)
(* configuration that gets the same readings after the same delays on a    *)
(* clock that does not wrap.                                               *)

\* How long before the wrap the run starts.
WrapLeads == {3, 1003}

WrapConfigs ==
  { Config("GPIO", FALSE, 2, 3, 2, 1, 1, FALSE),
    Config("GPIO", TRUE, 0, 2, 3, 1, 2, FALSE) }

InitWrapEnv(c) ==
  [ ref |-> LOOP_INTERVAL_MS,   \* the clock that does not wrap
    shadow |-> OptaButton(c),   \* the object polled on that clock
    short |-> 0,                \* ms elapsed in short steps
    pauses |-> 0,               \* pauses of ACCEL_PERIOD_MS taken
    wrapped |-> FALSE,          \* millis() has passed its maximum
    armed |-> FALSE ]           \* a press edge was recorded before that

InitWrap ==
  /\ \E k \in WrapLeads : millis = ClockModulus - k
  /\ level \in {"LOW", "HIGH"}
  /\ cfg \in WrapConfigs
  /\ btn = OptaButton(cfg)
  /\ g_optaExpRefreshToken = 0
  /\ lastTokenMs = 0
  /\ lastExpRefreshToken = 0
  /\ lastRefreshToken = 0
  /\ refresh = InitRefresh
  /\ pre = btn
  /\ hist = InitHist
  /\ env = InitWrapEnv(cfg)

\* update() of both objects, each at its clock value, with the same reading.
WrapPoll ==
  /\ Update
  /\ env' = [env EXCEPT !.shadow = update(@, cfg, env.ref, readInput(cfg, level)),
                        !.armed = @ \/ (~env.wrapped /\ btn'.shortPressDetected)]

WrapTick(d) ==
  /\ Tick(d)
  /\ env' = [env EXCEPT !.ref = @ + d,
                        !.short = IF d = ACCEL_PERIOD_MS THEN @ ELSE @ + d,
                        !.pauses = IF d = ACCEL_PERIOD_MS THEN @ + 1 ELSE @,
                        !.wrapped = @ \/ millis + d >= ClockModulus]
  /\ UNCHANGED level

WrapAdvance == \E d \in Steps : env.short + d <= MaxTime /\ WrapTick(d)
WrapPause == env.pauses < MaxPauses /\ WrapTick(ACCEL_PERIOD_MS)
WrapBounce == SetLevel /\ UNCHANGED env

NextWrap == WrapPoll \/ WrapAdvance \/ WrapPause \/ WrapBounce

SpecWrap == InitWrap /\ [][NextWrap]_vars

----------------------------------------------------------------------------
(* The settling environment: the input bounces and update() is called on   *)
(* any schedule; at some point the input settles, and from then on the     *)
(* clock advances between the update() calls, which keep coming.           *)

LiveMaxTime == 6

LiveConfigs ==
  { Config("GPIO", FALSE, 2, 3, 2, 1, 1, FALSE),
    Config("OPTA_CTL", FALSE, 1, 1, 1, 1, 0, FALSE) }

InitLiveEnv ==
  [ settled |-> FALSE,    \* the input has taken its final level
    differed |-> FALSE,   \* the debounced state differed from it then
    inWindow |-> FALSE,   \* a debounce window was open then
    emitted |-> FALSE,    \* the edge event of the final level has come since
    turn |-> "tick" ]     \* after settling: what comes next

InitLive ==
  /\ millis = 0
  /\ level \in {"LOW", "HIGH"}
  /\ cfg \in LiveConfigs
  /\ btn = OptaButton(cfg)
  /\ g_optaExpRefreshToken = 0
  /\ lastTokenMs = 0
  /\ lastExpRefreshToken = 0
  /\ lastRefreshToken = 0
  /\ refresh = InitRefresh
  /\ pre = btn
  /\ hist = InitHist
  /\ env = InitLiveEnv

LivePoll ==
  /\ env.settled => env.turn = "poll"
  /\ Update
  /\ env' = [env EXCEPT
               !.turn = "tick",
               !.emitted = @ \/ (/\ env.settled
                                 /\ IF readInput(cfg, level)
                                    THEN btn'.shortPressDetected
                                    ELSE btn'.releaseDetected)]

LiveTick ==
  /\ env.settled => env.turn = "tick"
  /\ \E d \in Steps : millis + d <= LiveMaxTime /\ Tick(d)
  /\ env' = [env EXCEPT !.turn = "poll"]
  /\ UNCHANGED level

LiveBounce == ~env.settled /\ SetLevel /\ UNCHANGED env

\* The input keeps its level from now on.  The clock of the model has room
\* for the debounce window and two more steps.
LiveSettle ==
  /\ ~env.settled
  /\ millis + cfg.debounceTime + 3 <= LiveMaxTime
  /\ env' = [env EXCEPT !.settled = TRUE,
                        !.differed = (btn.currentPressed # readInput(cfg, level)),
                        !.inWindow = btn.debouncing,
                        !.turn = "tick"]
  /\ UNCHANGED <<millis, level, cfg, btn, g_optaExpRefreshToken, lastTokenMs,
                 lastExpRefreshToken, lastRefreshToken, refresh, pre, hist>>

NextLive == LivePoll \/ LiveTick \/ LiveBounce \/ LiveSettle

\* update() keeps being called and millis() keeps advancing.
SpecLive ==
  InitLive /\ [][NextLive]_vars /\ WF_vars(LivePoll) /\ WF_vars(LiveTick)

----------------------------------------------------------------------------
(* Two buttons on expansion channels.  The second object and its channel   *)
(* are kept in env; the token and the function statics are shared.         *)

MultiMaxTime == 4

\* Expansion-channel buttons: the channel hosted by a module, and claimed
\* by no module (or a build with OPTA == 0), plain and inverted.
MultiConfigs ==
  { Config("EXP_DIG", FALSE, 0, 2, 1, 1, 0, TRUE),
    Config("EXP_DIG", FALSE, 1, 1, 1, 1, 0, FALSE),
    Config("EXP_DIG", TRUE, 1, 1, 1, 1, 0, FALSE) }

\* Values a build may give to the name lastRefreshToken (line 172).
RefreshTokenValues == {0, 1, 2}

InitMultiEnv(c) ==
  [ other |-> OptaButton(c),   \* the second OptaButton object
    otherCfg |-> c,
    otherLevel |-> "LOW",
    advTick |-> -1,            \* the tick of the last token advance
    advCount |-> 0,            \* token advances within that tick
    seenTick |-> -1,           \* the tick of the last effective poll
    seenTok |-> 0,             \* the token value that poll saw
    sameGen |-> TRUE ]         \* polls of one tick saw one token value

\* What an update() call at tick n shows about the token.
MultiSeen(e, n, eff, tokBefore, tokAfter) ==
  LET advanced == tokAfter # tokBefore
  IN [e EXCEPT
        !.advTick = IF advanced THEN n ELSE @,
        !.advCount = IF ~advanced THEN @
                     ELSE IF e.advTick = n THEN (IF @ < 2 THEN @ + 1 ELSE @)
                     ELSE 1,
        !.seenTick = IF eff THEN n ELSE @,
        !.seenTok = IF eff THEN tokAfter ELSE @,
        !.sameGen = IF eff /\ e.seenTick = n /\ e.seenTok # tokAfter
                    THEN FALSE ELSE @]

InitMulti ==
  /\ millis = 0
  /\ level = "LOW"
  /\ cfg \in MultiConfigs
  /\ btn = OptaButton(cfg)
  /\ g_optaExpRefreshToken = 0
  /\ lastTokenMs = 0
  /\ lastExpRefreshToken = 0
  /\ lastRefreshToken \in RefreshTokenValues
  /\ refresh = InitRefresh
  /\ pre = btn
  /\ hist = InitHist
  /\ \E c \in MultiConfigs : env = InitMultiEnv(c)

\* update() of the first button.
MultiPoll ==
  /\ Update
  /\ env' = MultiSeen(env, millis, ~RateLimited(millis, btn.lastUpdateTime),
                      g_optaExpRefreshToken, g_optaExpRefreshToken')

\* update() of the second button.
MultiPollOther ==
  LET o == env.other
      c == env.otherCfg
      p == readInput(c, env.otherLevel)
      eff == ~RateLimited(millis, o.lastUpdateTime)
      tk == TokenAfter(o, millis, g_optaExpRefreshToken, lastTokenMs)
  IN /\ g_optaExpRefreshToken' = tk[1]
     /\ lastTokenMs' = tk[2]
     /\ lastExpRefreshToken' =
          IF eff THEN ExpTokenAfter(c, tk[1], lastExpRefreshToken, lastRefreshToken)
          ELSE lastExpRefreshToken
     /\ refresh' = RefreshAfter(refresh, millis, eff /\ RefreshDue(c, tk[1], lastRefreshToken))
     /\ env' = MultiSeen([env EXCEPT !.other = update(o, c, millis, p)],
                         millis, eff, g_optaExpRefreshToken, tk[1])
     /\ UNCHANGED <<millis, level, cfg, btn, lastRefreshToken, pre, hist>>

MultiTick == millis < MultiMaxTime /\ Tick(1) /\ UNCHANGED <<level, env>>

\* A channel changes level.
MultiToggle == SetLevel /\ UNCHANGED env
MultiToggleOther ==
  /\ env' = [env EXCEPT !.otherLevel = Toggled(@)]
  /\ UNCHANGED <<millis, level, cfg, btn, g_optaExpRefreshToken, lastTokenMs,
                 lastExpRefreshToken, lastRefreshToken, refresh, pre, hist>>

NextMulti ==
  MultiPoll \/ MultiPollOther \/ MultiTick \/ MultiToggle \/ MultiToggleOther

SpecMulti == InitMulti /\ [][NextMulti]_vars

----------------------------------------------------------------------------
(* The hold environment: update() is called once at every clock tick and  *)
(* the input is bounce-free: it keeps each level for longer than the      *)
(* debounce window, and a press is held longer than the long-press        *)
(* threshold.                                                             *)

HoldConfigs ==
  { Config("GPIO", FALSE, 1, 2, 1, 1, 0, FALSE),
    Config("OPTA_CTL", FALSE, 2, 1, 1, 1, 0, FALSE),
    Config("GPIO", TRUE, 0, 1, 2, 1, 1, FALSE),
    Config("OPTA_CTL", TRUE, 2, 2, 1, 1, 0, FALSE) }

StableCap == Max(cfg.debounceTime, cfg.longPressThreshold) + 1
Count2(k, b) == IF b /\ k < 2 THEN k + 1 ELSE k

InitHold ==
  /\ millis = 0
  /\ level \in {"LOW", "HIGH"}
  /\ cfg \in HoldConfigs
  /\ btn = OptaButton(cfg)
  /\ g_optaExpRefreshToken = 0
  /\ lastTokenMs = 0
  /\ lastExpRefreshToken = 0
  /\ lastRefreshToken = 0
  /\ refresh = InitRefresh
  /\ pre = btn
  /\ hist = InitHist
  /\ env = IF readInput(cfg, level)
           THEN [InitEnv EXCEPT !.stable = 1, !.cycle = TRUE]
           ELSE [InitEnv EXCEPT !.stable = StableCap]

HoldPoll ==
  /\ ~env.polled
  /\ Update
  /\ env' = [env EXCEPT !.polled = TRUE,
                        !.nShort = Count2(@, btn'.shortPressDetected),
                        !.nLong = Count2(@, btn'.longPressDetected),
                        !.nRel = Count2(@, btn'.releaseDetected),
                        !.nLongRel = Count2(@, btn'.longReleaseDetected),
                        !.together = @ \/ (btn'.releaseDetected /\ btn'.longReleaseDetected)]

HoldStay ==
  /\ env.polled
  /\ millis < HoldMaxTime
  /\ Tick(1)
  /\ level' = level
  /\ env' = [env EXCEPT !.polled = FALSE,
                        !.stable = IF @ < StableCap THEN @ + 1 ELSE @]

HoldPress ==
  /\ env.polled
  /\ millis < HoldMaxTime
  /\ ~readInput(cfg, level)
  /\ env.stable > cfg.debounceTime
  /\ Tick(1)
  /\ level' = Toggled(level)
  /\ env' = [InitEnv EXCEPT !.stable = 1, !.cycle = TRUE, !.pressAt = millis']

HoldRelease ==
  /\ env.polled
  /\ millis < HoldMaxTime
  /\ readInput(cfg, level)
  /\ env.stable > Max(cfg.debounceTime, cfg.longPressThreshold)
  /\ Tick(1)
  /\ level' = Toggled(level)
  /\ env' = [env EXCEPT !.polled = FALSE, !.stable = 1]

NextHold == HoldPoll \/ HoldStay \/ HoldPress \/ HoldRelease

SpecHold == InitHold /\ [][NextHold]_vars

----------------------------------------------------------------------------
(* The worked example: default configuration, update() at every ms, the   *)
(* input pressed at pressAt and released ExampleHold ms later.            *)

ExampleStarts == {1, 4}

ExampleLevel(t, start) ==
  IF start <= t /\ t < start + ExampleHold THEN "LOW" ELSE "HIGH"

InitExample ==
  /\ millis = 0
  /\ level = "HIGH"
  /\ cfg = DefaultConfig
  /\ btn = OptaButton(cfg)
  /\ g_optaExpRefreshToken = 0
  /\ lastTokenMs = 0
  /\ lastExpRefreshToken = 0
  /\ lastRefreshToken = 0
  /\ refresh = InitRefresh
  /\ pre = btn
  /\ hist = InitHist
  /\ \E start \in ExampleStarts : env = [InitEnv EXCEPT !.pressAt = start]

ExamplePoll ==
  /\ ~env.polled
  /\ Update
  /\ env' = [env EXCEPT !.polled = TRUE]

ExampleTick ==
  /\ env.polled
  /\ millis < env.pressAt + ExampleHold + ExampleTail
  /\ Tick(1)
  /\ level' = ExampleLevel(millis', env.pressAt)
  /\ env' = [env EXCEPT !.polled = FALSE]

NextExample == ExamplePoll \/ ExampleTick

SpecExample == InitExample /\ [][NextExample]_vars

----------------------------------------------------------------------------
(* Properties *)

Flags(self) ==
  <<self.shortPressDetected, self.releaseDetected, self.longPressDetected,
    self.longReleaseDetected, self.repeatTriggered>>

NonFlagState(self) ==
  <<self.lastUpdateTime, self.edgeTime, self.lastRepeatTime, self.lastAccelUpdate,
    self.rawState, self.debouncing, self.currentPressed, self.longPressActive,
    self.longPressReported, self.currentRepeatInterval>>

EdgeEvent(self) == self.shortPressDetected \/ self.releaseDetected

\* The last update() call came less than 1 ms after the previous effective one.
TooSoon == hist.calls > 0 /\ Sub32(hist.at, pre.lastUpdateTime) < 1

\* C1: an update() call made less than 1 ms after the previous effective
\* update leaves the timestamps, the raw state, the debouncing flag, the
\* debounced state, long-press-active, the long-press guard, the current
\* repeat interval and the refresh token unchanged, and all five event flags
\* read false after it.
C1_RateLimitedCallChangesNothing ==
  TooSoon =>
    /\ NonFlagState(btn) = NonFlagState(pre)
    /\ g_optaExpRefreshToken = hist.tokenBefore
    /\ NoEvent(btn)

\* C1 witness: a rate-limited call that found the input changed and the
\* flags of the previous poll set.
C1_Witness ==
  /\ TooSoon
  /\ hist.pressed # pre.rawState
  /\ ~pre.debouncing
  /\ ~NoEvent(pre)

\* C2 as stated: after a second call within the same millisecond the five
\* accessors return what they returned after the first call.
C2_SecondCallKeepsFlags == TooSoon => Flags(btn) = Flags(pre)

\* C2 amended: a second call within the same millisecond clears the five
\* flags, so the accessors agree with their values after the first call only
\* if the first call emitted no event; apart from the flags the call is an
\* idempotent no-op (a further call at the same clock value changes nothing).
C2_SecondCallClearsFlags ==
  TooSoon =>
    /\ Flags(btn) = <<FALSE, FALSE, FALSE, FALSE, FALSE>>
    /\ (Flags(btn) = Flags(pre)) <=> NoEvent(pre)
    /\ \A p \in BOOLEAN : update(btn, cfg, hist.at, p) = btn

\* C2 witness: the first call emitted an event and the second call followed
\* within the same millisecond.
C2_Witness == TooSoon /\ hist.calls = 2 /\ ~NoEvent(pre)

\* C4 as stated: a poll that reads pressed while the button is idle emits
\* short-press in that poll, at every clock value, including the first poll
\* of a freshly constructed button at t = 0.
C4_PressWhileIdleEmitsShortPress ==
  /\ (hist.effective /\ hist.pressed /\ ~pre.rawState /\ ~pre.debouncing)
        => btn.shortPressDetected
  /\ (hist.calls = 1 /\ hist.at = 0 /\ hist.pressed) => btn.shortPressDetected

\* C4, the part the code satisfies: every poll that gets past the rate limit
\* and reads pressed while idle emits short-press.
C4_EffectivePollEmitsShortPress ==
  (hist.effective /\ hist.pressed /\ ~pre.rawState /\ ~pre.debouncing)
     => btn.shortPressDetected

\* C6: once an edge has been recorded at time e, no poll at a time t with
\* t - e < debounce window emits short-press or release, whatever the input
\* does inside the window.
C6_NoEdgeEventInsideDebounceWindow ==
  (EdgeEvent(btn) /\ hist.edgesBefore)
     => Sub32(hist.at, pre.edgeTime) >= cfg.debounceTime

\* C6 witness: a poll inside the window read a changed input and emitted no
\* edge event.
C6_Witness ==
  /\ hist.effective
  /\ hist.edgesBefore
  /\ Sub32(hist.at, pre.edgeTime) < cfg.debounceTime
  /\ hist.pressed # pre.rawState
  /\ ~EdgeEvent(btn)

\* C7 as stated: whenever a poll emits short-press (release), every poll in
\* the preceding debounce-window milliseconds read pressed (released).
C7_EdgeOnlyAfterStableReading ==
  EdgeEvent(btn) =>
    (hist.oppAt = -1 \/ Sub32(hist.at, hist.oppAt) > cfg.debounceTime)

\* C7 amended: a state change is accepted as an edge by the first effective
\* poll whose reading differs from the recorded raw state while no debounce
\* is in progress, without any wait for a stable reading: a poll emits
\* short-press (release) exactly when it reads pressed (released), the
\* recorded raw state was the opposite and no debounce was in progress.
C7_EdgeAcceptedOnFirstDifferingRead ==
  hist.calls > 0 =>
    /\ btn.shortPressDetected <=>
         (hist.effective /\ hist.pressed /\ ~pre.rawState /\ ~pre.debouncing)
    /\ btn.releaseDetected <=>
         (hist.effective /\ ~hist.pressed /\ pre.rawState /\ ~pre.debouncing)

\* C7 witness: short-press emitted although a poll inside the preceding
\* debounce window read released.
C7_Witness ==
  /\ btn.shortPressDetected
  /\ cfg.debounceTime > 0
  /\ hist.oppAt # -1
  /\ Sub32(hist.at, hist.oppAt) <= cfg.debounceTime

\* C8: between a poll that emits short-press and the next poll that emits
\* release, at most one poll has isLongPressed true.
C8_LongPressOncePerPress == hist.nLong <= 1

\* C8 witness: a later poll of the same hold, past the threshold, that does
\* not emit long-press-enter again.
C8_Witness ==
  /\ hist.nLong = 1
  /\ hist.effective
  /\ hist.pressed
  /\ pre.longPressReported
  /\ ~btn.longPressDetected
  /\ Sub32(hist.at, btn.edgeTime) >= cfg.longPressThreshold

\* C9: long-release is emitted only together with release; a poll that
\* emits release emits long-release iff long-press-enter was emitted since
\* the short-press of that hold; after that poll the debounced state,
\* long-press-active and the long-press guard are false.
C9_LongReleaseIffLongPressed ==
  /\ btn.longReleaseDetected => btn.releaseDetected
  /\ btn.releaseDetected =>
       /\ btn.longReleaseDetected <=> (hist.nLong >= 1)
       /\ ~btn.currentPressed
       /\ ~btn.longPressActive
       /\ ~btn.longPressReported

\* C9 witness: a release that ends a long-press.
C9_Witness == btn.releaseDetected /\ btn.longReleaseDetected /\ hist.nLong = 1

\* The repeat timestamp and interval the repeat check of the last poll saw.
RepeatBase == IF btn.longPressDetected THEN hist.at ELSE pre.lastRepeatTime
RepeatStep ==
  IF btn.shortPressDetected THEN cfg.repeatIntervalStart ELSE pre.currentRepeatInterval

\* C10: when a repeat fires the last-repeat timestamp advances by exactly
\* the current interval; a poll of a held button in long-press that finds
\* now - lastRepeatTime >= 2 * interval emits a repeat, and so does the next
\* effective poll while still held; in general every poll of a held button
\* in long-press emits a repeat as long as lastRepeatTime is an interval or
\* more behind now.
C10_NoRepeatMissed ==
  /\ btn.repeatTriggered => btn.lastRepeatTime = Add32(RepeatBase, RepeatStep)
  /\ (hist.effective /\ hist.pressed) =>
       /\ hist.owed => btn.repeatTriggered
       /\ hist.owedBefore => btn.repeatTriggered
       /\ (pre.longPressActive
             /\ Sub32(hist.at, pre.lastRepeatTime) >= pre.currentRepeatInterval)
            => btn.repeatTriggered

\* C10 witness: two consecutive polls both emit a repeat because the first
\* one arrived two (non-zero) intervals late.
C10_Witness ==
  /\ hist.effective
  /\ hist.pressed
  /\ hist.owedBefore
  /\ pre.repeatTriggered
  /\ btn.repeatTriggered
  /\ pre.currentRepeatInterval > 0

\* A press-hold-release cycle of the hold environment is over: the input has
\* been released for longer than the debounce window and the tick is polled.
CycleOver ==
  /\ env.cycle
  /\ env.polled
  /\ ~readInput(cfg, level)
  /\ env.stable > cfg.debounceTime

CycleCounts == <<env.nShort, env.nLong, env.nRel, env.nLongRel>>

\* C3 as stated: every press-hold-release cycle of a bounce-free input held
\* longer than the long-press threshold and polled at every tick, the first
\* one included, emits exactly one short-press, exactly one long-press-enter
\* and exactly one release, the release in the same poll as exactly one
\* long-release.
C3_OneOfEachEventPerCycle ==
  /\ env.cycle =>
       (env.nShort <= 1 /\ env.nLong <= 1 /\ env.nRel <= 1 /\ env.nLongRel <= 1)
  /\ CycleOver => (CycleCounts = <<1, 1, 1, 1>> /\ env.together)

\* C3 for the cycles whose press comes after the first poll of the button:
\* the statement above holds for every cycle but one that begins with the
\* input already pressed at the first update() call at clock value 0.
C3_OneOfEachEventPerLaterCycle ==
  env.pressAt >= 1 => C3_OneOfEachEventPerCycle

\* A second cycle of the hold environment has run to its end.
C3_LaterCycleOver == CycleOver /\ env.pressAt > cfg.longPressThreshold + 2

\* C5: with the default configuration, polled every ms, pressed at T and
\* released at T + ExampleHold: short-press at T, long-press-enter at T+800
\* with no repeat, repeats at T+900, T+1000, ..., T+1800, the interval 8
\* from the poll at T+1800 on, repeats every 8 ms after that, and release
\* with long-release at T + ExampleHold with the guard cleared.
C5_ExampleTimeline ==
  env.polled =>
    LET d == millis - env.pressAt
    IN /\ btn.shortPressDetected <=> (d = 0)
       /\ btn.longPressDetected <=> (d = 800)
       /\ btn.repeatTriggered <=>
            \/ (d >= 900 /\ d <= 1800 /\ (d - 800) % 100 = 0)
            \/ (d > 1800 /\ d < ExampleHold /\ (d - 1800) % 8 = 0)
       /\ btn.releaseDetected <=> (d = ExampleHold)
       /\ btn.longReleaseDetected <=> (d = ExampleHold)
       /\ btn.currentRepeatInterval = (IF d >= 1800 THEN 8 ELSE 100)
       /\ (d = ExampleHold) => ~btn.longPressReported

\* C5 witness: the poll at T + ExampleHold, after the interval has dropped
\* to 8, reports release and long-release.
C5_Witness ==
  /\ env.polled
  /\ millis = env.pressAt + ExampleHold
  /\ btn.releaseDetected
  /\ btn.longReleaseDetected
  /\ btn.currentRepeatInterval = 8
  /\ pre.longPressActive

----------------------------------------------------------------------------
(* Properties of the hold, the repeat and the guards *)

\* Time from the recorded edge to the last update() call.
SinceEdge == Sub32(hist.at, btn.edgeTime)

\* C11: a repeat event is emitted only while long-press is active: never
\* before the long-press-enter of the current hold, never in the poll that
\* emits release, never after a release until a later hold has emitted its
\* own long-press-enter.
C11_RepeatOnlyInLongPress ==
  btn.repeatTriggered =>
    /\ hist.nLong >= 1
    /\ hist.lastEdge = "press"
    /\ ~btn.releaseDetected
    /\ btn.longPressActive
    /\ btn.currentPressed

\* C11 witness: a repeat in a second hold, after a release.
C11_Witness ==
  /\ btn.repeatTriggered
  /\ ~btn.longPressDetected
  /\ pre.currentRepeatInterval > 0
  /\ hist.edgesBefore
  /\ Sub32(btn.edgeTime, 0) > cfg.longPressThreshold + 1

\* C12 as stated: whenever a poll emits long-press-enter, the raw reading
\* is pressed in that poll and was pressed at every poll since the press
\* edge of that hold, for any polling schedule.
C12_LongPressOnlyAfterContinuousHold ==
  btn.longPressDetected =>
    /\ hist.pressed
    /\ (hist.oppAt = -1 \/ Sub32(hist.at, hist.oppAt) > SinceEdge)

\* C16: long-press-enter is never emitted before both the threshold and the
\* debounce window have elapsed since the press edge; while the button is
\* held it has been emitted by the first effective poll at which
\* now - edgeTime >= max(threshold, window); that poll resets the repeat and
\* acceleration timers to now, so with a repeat interval > 0 it emits no
\* repeat.
C16_LongPressAtMaxOfThresholdAndDebounce ==
  /\ btn.longPressDetected =>
       /\ SinceEdge >= cfg.longPressThreshold
       /\ SinceEdge >= cfg.debounceTime
       /\ btn.lastAccelUpdate = hist.at
       /\ RepeatStep > 0 => (~btn.repeatTriggered /\ btn.lastRepeatTime = hist.at)
  /\ (/\ hist.effective
      /\ btn.currentPressed
      /\ SinceEdge >= Max(cfg.longPressThreshold, cfg.debounceTime))
       => hist.nLong >= 1

\* C16 witness: long-press-enter of a held button delayed to the end of a
\* debounce window longer than the threshold.
C16_Witness ==
  /\ btn.longPressDetected
  /\ hist.pressed
  /\ cfg.debounceTime > cfg.longPressThreshold
  /\ cfg.repeatIntervalStart > 0
  /\ SinceEdge = cfg.debounceTime

\* C18: the debounced state equals the recorded raw state; short-press and
\* release alternate, beginning with short-press; no poll emits both.
C18_DebouncedEqualsRawAndEdgesAlternate ==
  /\ btn.currentPressed = btn.rawState
  /\ ~(btn.shortPressDetected /\ btn.releaseDetected)
  /\ btn.shortPressDetected => hist.lastEdgeBefore \in {"none", "release"}
  /\ btn.releaseDetected => hist.lastEdgeBefore = "press"

\* C18 witness: a second short-press, after a release.
C18_Witness ==
  /\ btn.shortPressDetected
  /\ hist.lastEdgeBefore = "release"
  /\ btn.currentPressed

\* C19: long-press-active equals the long-press guard, both imply that the
\* debounced state is pressed, and the guard is false when a press edge is
\* recorded.
C19_ActiveEqualsGuard ==
  /\ btn.longPressActive = btn.longPressReported
  /\ btn.longPressActive => btn.currentPressed
  /\ btn.shortPressDetected => ~pre.longPressReported

\* C19 witness: a press edge recorded after a hold that had set the guard.
C19_Witness ==
  /\ btn.shortPressDetected
  /\ hist.lastEdgeBefore = "release"
  /\ hist.nLong = 0
  /\ ~pre.longPressReported
  /\ pre.lastRepeatTime # pre.edgeTime

\* C17: with minimum <= initial repeat interval, the current interval stays
\* within [minimum, initial]; a press edge resets it to the initial value;
\* it never increases during a hold; it changes otherwise only by an
\* acceleration step, taken while long-press is active and at least 1000 ms
\* after the last acceleration timestamp, to max(current - step, minimum).
C17_RepeatIntervalWithinBounds ==
  cfg.repeatIntervalMin <= cfg.repeatIntervalStart =>
    /\ cfg.repeatIntervalMin <= btn.currentRepeatInterval
    /\ btn.currentRepeatInterval <= cfg.repeatIntervalStart
    /\ btn.shortPressDetected =>
         btn.currentRepeatInterval = cfg.repeatIntervalStart
    /\ ~btn.shortPressDetected =>
         btn.currentRepeatInterval <= pre.currentRepeatInterval
    /\ (~btn.shortPressDetected
          /\ btn.currentRepeatInterval # pre.currentRepeatInterval) =>
         /\ btn.longPressActive
         /\ Sub32(hist.at, pre.lastAccelUpdate) >= ACCEL_PERIOD_MS
         /\ btn.currentRepeatInterval =
              Max(pre.currentRepeatInterval - cfg.acceleration,
                  cfg.repeatIntervalMin)

----------------------------------------------------------------------------
(* Properties of the expansion-channel buttons *)

\* The token part of C14: the token is advanced at most once per clock tick
\* and all the polls of one tick see the same token value.
TokenOncePerTick == env.advCount <= 1 /\ env.sameGen

\* C14: for buttons polling in any order, the token is advanced at most
\* once per clock tick, all the polls of one tick see the same token value,
\* and the modules' refresh-inputs operation is invoked at most once per
\* tick.
C14_OneRefreshPerTick == TokenOncePerTick /\ refresh.count <= 1

\* C15: an expansion-channel button whose channel no module claims reads
\* not-pressed on every poll, inverted or not, and never emits an event.
C15_UnclaimedChannelReadsNotPressed ==
  (cfg.inputMode = "EXP_DIG" /\ ~cfg.expansion) =>
    (~hist.pressed /\ ~btn.currentPressed /\ NoEvent(btn))

----------------------------------------------------------------------------
(* Clock wraparound *)

\* What an object shows apart from its timestamps.
Logical(self) ==
  <<Flags(self), self.rawState, self.debouncing, self.currentPressed,
    self.longPressActive, self.longPressReported, self.currentRepeatInterval>>

\* C13: the comparisons stay correct across clock wraparound: once a press
\* edge has been recorded before the clock wraps, the events emitted and the
\* state after every later poll, at clock value (e + d) mod 2^w, are those
\* of a button polled with the same readings after the same delays on a
\* clock that does not wrap, and the times since its timestamps are the same.
C13_WrapMakesNoDifference ==
  /\ (env.armed \/ ~env.wrapped) => Logical(btn) = Logical(env.shadow)
  /\ env.armed =>
       /\ Sub32(millis, btn.lastUpdateTime) = env.ref - env.shadow.lastUpdateTime
       /\ Sub32(millis, btn.edgeTime) = env.ref - env.shadow.edgeTime
       /\ Sub32(millis, btn.lastAccelUpdate) = env.ref - env.shadow.lastAccelUpdate
       /\ Sub32(millis, btn.lastRepeatTime) = env.ref - env.shadow.lastRepeatTime

\* C13 witness: a press edge recorded before the wrap, and after the wrap a
\* repeat at an interval that an acceleration step has shortened.
C13_Witness ==
  /\ env.wrapped
  /\ env.armed
  /\ btn.edgeTime > millis
  /\ btn.repeatTriggered
  /\ btn.longPressActive
  /\ btn.currentRepeatInterval < cfg.repeatIntervalStart

----------------------------------------------------------------------------
(* Liveness *)

\* C20: no final state is lost to debouncing: once the reading stays at a
\* constant value, with update() called again and again as the clock
\* advances, the debounced state eventually equals that value, and if it
\* differed when the reading settled, the edge event of that value
\* (short-press for pressed, release for released) is eventually emitted.
C20_FinalStateIsReported ==
  /\ env.settled ~> (btn.currentPressed = readInput(cfg, level))
  /\ (env.settled /\ env.differed) ~> env.emitted

\* C20 witness: the reading settled at the other value inside a debounce
\* window, and the edge event has come.
C20_Witness ==
  /\ env.settled
  /\ env.differed
  /\ env.inWindow
  /\ env.emitted
  /\ btn.currentPressed = readInput(cfg, level)

====
